---- MODULE Spec2Model ----
(***************************************************************************)
(* Model of smiLEbot's server.js, which holds two versions of the server:  *)
(* the WhatsApp booking dialogue (POST /webhook, lines 50-133) and the     *)
(* handler that replaced it (lines 386-434), the webhook subscription      *)
(* handshake (GET /webhook, lines 39-47 and 365-381), and the Google OAuth *)
(* callback without a store (lines 177-190) and with its token store (lines*)
(* 238, 310-360).                                                          *)
(*                                                                         *)
(* A text is a sequence of one-character strings, so that trimming, case   *)
(* folding, digit stripping and Number() are computed, not assumed.        *)
(***************************************************************************)
EXTENDS Integers, Sequences, FiniteSets, TLC

\* ------------------------------------------------------------------------
\* Characters and strings
\* ------------------------------------------------------------------------

UpperChars == <<"A","B","C","D","E","F","G","H","I","J","K","L","M",
                "N","O","P","Q","R","S","T","U","V","W","X","Y","Z">>

LowerChars == <<"a","b","c","d","e","f","g","h","i","j","k","l","m",
                "n","o","p","q","r","s","t","u","v","w","x","y","z">>

DigitChars == <<"0","1","2","3","4","5","6","7","8","9">>

\* A character is a one-character string; a character that cannot be
\* written in a string of this language is written by its code point, as in
\* "U+2028".

\* WhiteSpace and LineTerminator of ECMAScript, which String.prototype.trim
\* and StringToNumber remove: TAB, LF, CR, FF, SP, then VT, NBSP, U+1680 and
\* U+FEFF (written raw), then U+2000..U+200A, U+2028, U+2029, U+202F,
\* U+205F and U+3000.
WhiteSpaceChars ==
    { "\t", "\n", "\r", "\f", " ",
      "", " ", " ", "﻿",
      "U+2000", "U+2001", "U+2002", "U+2003", "U+2004", "U+2005",
      "U+2006", "U+2007", "U+2008", "U+2009", "U+200A",
      "U+2028", "U+2029", "U+202F", "U+205F", "U+3000" }

IsSpace(c) == c \in WhiteSpaceChars

\* \d of a JavaScript regular expression: ASCII digits only.
IsDigit(c) == \E i \in 1..10 : DigitChars[i] = c

DigitVal(c) == (CHOOSE i \in 1..10 : DigitChars[i] = c) - 1

\* Case folding of the /i flag on the letters the command words use.
ToLower(c) ==
    IF \E i \in 1..26 : UpperChars[i] = c
    THEN LowerChars[CHOOSE i \in 1..26 : UpperChars[i] = c]
    ELSE c

RECURSIVE TrimStart(_)
TrimStart(s) ==
    IF s # <<>> /\ IsSpace(Head(s)) THEN TrimStart(Tail(s)) ELSE s

RECURSIVE TrimEnd(_)
TrimEnd(s) ==
    IF s # <<>> /\ IsSpace(s[Len(s)])
    THEN TrimEnd(SubSeq(s, 1, Len(s) - 1))
    ELSE s

\* String.prototype.trim
Trim(s) == TrimEnd(TrimStart(s))

\* Faulty variant: the /i flag forgotten.
TestWord_CaseSensitive(word, text) == text = word

\* /^word$/i.test(text), for a lower-case word without metacharacters.
TestWord(word, text) ==
    /\ Len(text) = Len(word)
    /\ \A i \in 1..Len(word) : ToLower(text[i]) = word[i]

\* Faulty variant: only the white space removed, punctuation kept.
StripNonDigits_SpacesOnly(text) == SelectSeq(text, LAMBDA c : ~IsSpace(c))

\* text.replace(/\D/g, "")
StripNonDigits(text) == SelectSeq(text, IsDigit)

\* ------------------------------------------------------------------------
\* Number(text): the StringToNumber conversion of ECMAScript.
\*
\* A number is NaN, an infinity, or [kind |-> "num", neg, mant, exp], which
\* stands for the double nearest to (-1)^neg * mant * 10^exp; mant is a
\* sequence of decimal digits, most significant first.  The record is
\* normalised, so that equal records are equal doubles, whenever the double
\* is zero (mant <<0>>, exp 0), infinite, or an integer below 2^53 (mant
\* without leading or trailing zeros; exp counts the trailing zeros).
\* ------------------------------------------------------------------------

NaN == [kind |-> "nan", neg |-> FALSE, mant |-> <<0>>, exp |-> 0]

Infinite(n) == [kind |-> "inf", neg |-> n, mant |-> <<0>>, exp |-> 0]

Num(n, m, e) == [kind |-> "num", neg |-> n, mant |-> m, exp |-> e]

Zero(n) == Num(n, <<0>>, 0)

\* Natural numbers of any size as sequences of decimal digits.

StripLeadingZeros(d) ==
    IF \A i \in 1..Len(d) : d[i] = 0 THEN << >>
    ELSE SubSeq(d, CHOOSE i \in 1..Len(d) :
                      d[i] # 0 /\ \A j \in 1..(i - 1) : d[j] = 0,
                Len(d))

StripTrailingZeros(d) ==
    IF \A i \in 1..Len(d) : d[i] = 0 THEN << >>
    ELSE SubSeq(d, 1, CHOOSE i \in 1..Len(d) :
                         d[i] # 0 /\ \A j \in (i + 1)..Len(d) : d[j] = 0)

\* The value of a short digit sequence.
RECURSIVE ToNat(_)
ToNat(d) ==
    IF d = << >> THEN 0 ELSE ToNat(SubSeq(d, 1, Len(d) - 1)) * 10 + d[Len(d)]

\* The digits of a machine integer, none for zero.
RECURSIVE NatDigits(_)
NatDigits(t) == IF t = 0 THEN << >> ELSE NatDigits(t \div 10) \o << t % 10 >>

\* The digits of d * k + a, for k <= 2^26 and a < k: at least as many as d
\* has.  A long d is multiplied half by half, the carry of the lower half
\* going into the upper one.
RECURSIVE MulAdd(_, _, _)
MulAdd(d, k, a) ==
    IF d = << >> THEN NatDigits(a)
    ELSE IF Len(d) = 1
    THEN NatDigits((d[1] * k + a) \div 10) \o << (d[1] * k + a) % 10 >>
    ELSE LET h   == Len(d) \div 2
             low == MulAdd(SubSeq(d, h + 1, Len(d)), k, a)
             c   == Len(low) - (Len(d) - h)
         IN  IF c = 0
             THEN MulAdd(SubSeq(d, 1, h), k, 0) \o low
             ELSE MulAdd(SubSeq(d, 1, h), k, ToNat(SubSeq(low, 1, c)))
                      \o SubSeq(low, c + 1, Len(low))

\* The digit of a fraction at position i, zero beyond its end.
DigitAt(f, i) == IF i <= Len(f) THEN f[i] ELSE 0

\* -1, 0 or 1 as the fraction 0.f is below, equal to or above 0.g.
CompareFrac(f, g) ==
    LET n    == IF Len(f) > Len(g) THEN Len(f) ELSE Len(g)
        diff == { i \in 1..n : DigitAt(f, i) # DigitAt(g, i) }
    IN  IF diff = {} THEN 0
        ELSE LET i == CHOOSE j \in diff : \A k \in diff : j <= k
             IN  IF DigitAt(f, i) < DigitAt(g, i) THEN 0 - 1 ELSE 1

\* The same for two naturals without leading zeros.
CompareNat(a, b) ==
    IF Len(a) < Len(b) THEN 0 - 1
    ELSE IF Len(a) > Len(b) THEN 1
    ELSE CompareFrac(a, b)

\* b^n as a machine integer, for b^n below 2^31.
RECURSIVE Pow(_, _)
Pow(b, n) == IF n = 0 THEN 1 ELSE b * Pow(b, n - 1)

\* The digits of 2^k and of 5^k, by as large factors as MulAdd takes.
RECURSIVE Pow2(_)
Pow2(k) ==
    IF k <= 26 THEN NatDigits(Pow(2, k))
    ELSE MulAdd(Pow2(k - 26), Pow(2, 26), 0)

RECURSIVE Pow5(_)
Pow5(k) ==
    IF k <= 11 THEN NatDigits(Pow(5, k))
    ELSE MulAdd(Pow5(k - 11), Pow(5, 11), 0)

\* The fraction digits of 2^-k: those of 5^k, k digits in all.
FracPow2(k) ==
    LET d == Pow5(k) IN [i \in 1..(k - Len(d)) |-> 0] \o d

\* floor(log2 n) for a natural 1 <= n < 2^53.
Log2Floor(n) ==
    CHOOSE b \in 0..52 :
        /\ CompareNat(Pow2(b), n) <= 0
        /\ CompareNat(n, Pow2(b + 1)) < 0

\* 1 - 0.f for a fraction f that does not end in zero.
OneMinus(f) ==
    [i \in 1..Len(f) |-> IF i = Len(f) THEN 10 - f[i] ELSE 9 - f[i]]

\* Doubles overflow to Infinity from 2^1024 - 2^970 on (the tie goes to the
\* even neighbour, which is 2^1024): its 309 digits.
OverflowBound ==
    << 1,7,9,7,6,9,3,1,3,4,8,6,2,3,1,5,8,0,7,9,3,7,2,8,9,7,1,4,0,5,3,0,3,4,1,
       5,0,7,9,9,3,4,1,3,2,7,1,0,0,3,7,8,2,6,9,3,6,1,7,3,7,7,8,9,8,0,4,4,4,9,
       6,8,2,9,2,7,6,4,7,5,0,9,4,6,6,4,9,0,1,7,9,7,7,5,8,7,2,0,7,0,9,6,3,3,0,
       2,8,6,4,1,6,6,9,2,8,8,7,9,1,0,9,4,6,5,5,5,5,4,7,8,5,1,9,4,0,4,0,2,6,3,
       0,6,5,7,4,8,8,6,7,1,5,0,5,8,2,0,6,8,1,9,0,8,9,0,2,0,0,0,7,0,8,3,8,3,6,
       7,6,2,7,3,8,5,4,8,4,5,8,1,7,7,1,1,5,3,1,7,6,4,4,7,5,7,3,0,2,7,0,0,6,9,
       8,5,5,5,7,1,3,6,6,9,5,9,6,2,2,8,4,2,9,1,4,8,1,9,8,6,0,8,3,4,9,3,6,4,7,
       5,2,9,2,7,1,9,0,7,4,1,6,8,4,4,4,3,6,5,5,1,0,7,0,4,3,4,2,7,1,1,5,5,9,6,
       9,9,5,0,8,0,9,3,0,4,2,8,8,0,1,7,7,9,0,4,1,7,4,4,9,7,7,9,2 >>

\* Doubles round to zero up to 2^-1075 (the tie goes to the even neighbour,
\* which is zero): its significant digits, those of 5^1075, the first of
\* them being the 324th after the point.
UnderflowBound ==
    << 2,4,7,0,3,2,8,2,2,9,2,0,6,2,3,2,7,2,0,8,8,2,8,4,3,9,6,4,3,4,1,1,0,6,8,
       6,1,8,2,5,2,9,9,0,1,3,0,7,1,6,2,3,8,2,2,1,2,7,9,2,8,4,1,2,5,0,3,3,7,7,
       5,3,6,3,5,1,0,4,3,7,5,9,3,2,6,4,9,9,1,8,1,8,0,8,1,7,9,9,6,1,8,9,8,9,8,
       2,8,2,3,4,7,7,2,2,8,5,8,8,6,5,4,6,3,3,2,8,3,5,5,1,7,7,9,6,9,8,9,8,1,9,
       9,3,8,7,3,9,8,0,0,5,3,9,0,9,3,9,0,6,3,1,5,0,3,5,6,5,9,5,1,5,5,7,0,2,2,
       6,3,9,2,2,9,0,8,5,8,3,9,2,4,4,9,1,0,5,1,8,4,4,3,5,9,3,1,8,0,2,8,4,9,9,
       3,6,5,3,6,1,5,2,5,0,0,3,1,9,3,7,0,4,5,7,6,7,8,2,4,9,2,1,9,3,6,5,6,2,3,
       6,6,9,8,6,3,6,5,8,4,8,0,7,5,7,0,0,1,5,8,5,7,6,9,2,6,9,9,0,3,7,0,6,3,1,
       1,9,2,8,2,7,9,5,5,8,5,5,1,3,3,2,9,2,7,8,3,4,3,3,8,4,0,9,3,5,1,9,7,8,0,
       1,5,5,3,1,2,4,6,5,9,7,2,6,3,5,7,9,5,7,4,6,2,2,7,6,6,4,6,5,2,7,2,8,2,7,
       2,2,0,0,5,6,3,7,4,0,0,6,4,8,5,4,9,9,9,7,7,0,9,6,5,9,9,4,7,0,4,5,4,0,2,
       0,8,2,8,1,6,6,2,2,6,2,3,7,8,5,7,3,9,3,4,5,0,7,3,6,3,3,9,0,0,7,9,6,7,7,
       6,1,9,3,0,5,7,7,5,0,6,7,4,0,1,7,6,3,2,4,6,7,3,6,0,0,9,6,8,9,5,1,3,4,0,
       5,3,5,5,3,7,4,5,8,5,1,6,6,6,1,1,3,4,2,2,3,7,6,6,6,7,8,6,0,4,1,6,2,1,5,
       9,6,8,0,4,6,1,9,1,4,4,6,7,2,9,1,8,4,0,3,0,0,5,3,0,0,5,7,5,3,0,8,4,9,0,
       4,8,7,6,5,3,9,1,7,1,1,3,8,6,5,9,1,6,4,6,2,3,9,5,2,4,9,1,2,6,2,3,6,5,3,
       8,8,1,8,7,9,6,3,6,2,3,9,3,7,3,2,8,0,4,2,3,8,9,1,0,1,8,6,7,2,3,4,8,4,9,
       7,6,6,8,2,3,5,0,8,9,8,6,3,3,8,8,5,8,7,9,2,5,6,2,8,3,0,2,7,5,5,9,9,5,6,
       5,7,5,2,4,4,5,5,5,0,7,2,5,5,1,8,9,3,1,3,6,9,0,8,3,6,2,5,4,7,7,9,1,8,6,
       9,4,8,6,6,7,9,9,4,9,6,8,3,2,4,0,4,9,7,0,5,8,2,1,0,2,8,5,1,3,1,8,5,4,5,
       1,3,9,6,2,1,3,8,3,7,7,2,2,8,2,6,1,4,5,4,3,7,6,9,3,4,1,2,5,3,2,0,9,8,5,
       9,1,3,2,7,6,6,7,2,3,6,3,2,8,1,2,5 >>

\* The integer the double nearest to i.f is, when it is one: << n >>, or
\* << >>.  i is a natural below 2^53 (<< >> for zero) and f a fraction that
\* is not zero and does not end in zero.  Below 2^52 an integer n with
\* b = floor(log2 n) has doubles 2^(b-52) apart above it, and as far below
\* it unless n is 2^b, when they are half as far; ties go to n, whose
\* significand is even.  From 2^52 on the doubles are the integers.
NearestInteger(i, f) ==
    LET up    == MulAdd(IF i = << >> THEN << 0 >> ELSE i, 1, 1)
        half  == CompareFrac(f, << 5 >>)
        odd   == i[Len(i)] % 2 = 1
        bUp   == Log2Floor(up)
        kUp   == IF up = Pow2(bUp) THEN 54 - bUp ELSE 53 - bUp
    IN  IF i # << >> /\ CompareNat(i, Pow2(52)) >= 0
        THEN IF half < 0 \/ (half = 0 /\ ~odd) THEN << i >> ELSE << up >>
        ELSE IF i # << >> /\ CompareFrac(f, FracPow2(53 - Log2Floor(i))) <= 0
        THEN << i >>
        ELSE IF CompareFrac(OneMinus(f), FracPow2(kUp)) <= 0
        THEN << up >>
        ELSE << >>

\* The number that the digits d times 10^e stand for.
Normalize(neg, d, e) ==
    LET lead == StripLeadingZeros(d)
        s    == StripTrailingZeros(lead)
        x    == e + (Len(lead) - Len(s))
        p    == Len(s) + x
        i    == IF p <= 0 THEN << >> ELSE SubSeq(s, 1, p)
        f    == IF p <= 0 THEN [j \in 1..(0 - p) |-> 0] \o s
                ELSE SubSeq(s, p + 1, Len(s))
        near == NearestInteger(i, f)
        n    == StripTrailingZeros(near[1])
    IN  IF s = << >> THEN Zero(neg)
        ELSE IF p > 309 \/ (p = 309 /\ CompareFrac(s, OverflowBound) >= 0)
        THEN Infinite(neg)
        ELSE IF p < 0 - 323 \/ (p = 0 - 323 /\ CompareFrac(s, UnderflowBound) <= 0)
        THEN Zero(neg)
        ELSE IF x >= 0 \/ Len(s) <= 15 \/ CompareNat(i, Pow2(53)) >= 0
        THEN Num(neg, s, x)
        ELSE IF near = << >> THEN Num(neg, s, x)
        ELSE Num(neg, n, Len(near[1]) - Len(n))

RadixChars == <<"0","1","2","3","4","5","6","7","8","9","a","b","c","d","e","f">>

IsRadixDigit(c, radix) == \E i \in 1..radix : RadixChars[i] = ToLower(c)

RadixVal(c) == (CHOOSE i \in 1..16 : RadixChars[i] = ToLower(c)) - 1

\* The value of at most 24 bits of digits of the radix.
RECURSIVE ChunkVal(_, _)
ChunkVal(s, radix) ==
    IF s = << >> THEN 0
    ELSE ChunkVal(SubSeq(s, 1, Len(s) - 1), radix) * radix + RadixVal(s[Len(s)])

\* Digits of the radix that make 24 bits.
ChunkLen(radix) == IF radix = 16 THEN 6 ELSE IF radix = 8 THEN 8 ELSE 24

\* The decimal digits of the natural that s writes in the radix, 24 bits
\* at a time.
RECURSIVE RadixToNat(_, _)
RadixToNat(s, radix) ==
    LET n == ChunkLen(radix)
    IN  IF Len(s) <= n THEN NatDigits(ChunkVal(s, radix))
        ELSE MulAdd(RadixToNat(SubSeq(s, 1, Len(s) - n), radix),
                    Pow(radix, n),
                    ChunkVal(SubSeq(s, Len(s) - n + 1, Len(s)), radix))

AllDigits(s) == \A i \in 1..Len(s) : IsDigit(s[i])

\* Position of the first character of s that is in cs, 0 when there is none.
FirstIndex(s, cs) ==
    IF \E i \in 1..Len(s) : s[i] \in cs
    THEN CHOOSE i \in 1..Len(s) : s[i] \in cs /\ \A j \in 1..(i - 1) : s[j] \notin cs
    ELSE 0

RadixOf(c) == IF c = "x" THEN 16 ELSE IF c = "o" THEN 8 ELSE 2

\* 0x.., 0o.., 0b..: no sign, at least one digit of the radix.
RadixLiteral(t) ==
    LET radix == RadixOf(ToLower(t[2]))
        ds    == SubSeq(t, 3, Len(t))
    IN  IF ds # <<>> /\ \A i \in 1..Len(ds) : IsRadixDigit(ds[i], radix)
        THEN Normalize(FALSE, RadixToNat(ds, radix), 0)
        ELSE NaN

\* The value of the digits of an exponent, exact up to nine significant
\* digits; from ten on it is 10^9, which takes every number that is not
\* zero out of range: the mantissa would need some 10^9 digits to make up
\* for it, and express.json() of line 8 takes bodies up to 100kb.
ExponentVal(edig) ==
    LET d == StripLeadingZeros([i \in 1..Len(edig) |-> DigitVal(edig[i])])
    IN  IF Len(d) > 9 THEN Pow(10, 9) ELSE ToNat(d)

\* StrUnsignedDecimalLiteral, after the sign: digits[.digits][e[+-]digits],
\* .digits[e..] or Infinity.
DecimalLiteral(neg, body) ==
    LET epos   == FirstIndex(body, {"e", "E"})
        mstr   == IF epos = 0 THEN body ELSE SubSeq(body, 1, epos - 1)
        estr   == IF epos = 0 THEN <<>> ELSE SubSeq(body, epos + 1, Len(body))
        esign  == estr # <<>> /\ Head(estr) \in {"+", "-"}
        edig   == IF esign THEN Tail(estr) ELSE estr
        eok    == epos = 0 \/ (edig # <<>> /\ AllDigits(edig))
        eval   == IF epos = 0 THEN 0
                  ELSE IF esign /\ Head(estr) = "-" THEN 0 - ExponentVal(edig)
                  ELSE ExponentVal(edig)
        dpos   == FirstIndex(mstr, {"."})
        ipart  == IF dpos = 0 THEN mstr ELSE SubSeq(mstr, 1, dpos - 1)
        fpart  == IF dpos = 0 THEN <<>> ELSE SubSeq(mstr, dpos + 1, Len(mstr))
        mok    == AllDigits(ipart) /\ AllDigits(fpart) /\ (ipart # <<>> \/ fpart # <<>>)
        digits == [i \in 1..(Len(ipart) + Len(fpart)) |->
                     DigitVal((ipart \o fpart)[i])]
    IN  IF body = <<"I","n","f","i","n","i","t","y">> THEN Infinite(neg)
        ELSE IF mok /\ eok
        THEN Normalize(neg, digits, eval - Len(fpart))
        ELSE NaN

\* Number(text) of line 98.
Number(text) ==
    LET t == Trim(text)
    IN  IF t = <<>> THEN Zero(FALSE)
        ELSE IF Len(t) >= 2 /\ t[1] = "0" /\ ToLower(t[2]) \in {"x", "o", "b"}
        THEN RadixLiteral(t)
        ELSE IF Head(t) \in {"+", "-"}
        THEN DecimalLiteral(Head(t) = "-", Tail(t))
        ELSE DecimalLiteral(FALSE, t)

RECURSIVE Pow10(_)
Pow10(n) == IF n = 0 THEN 1 ELSE 10 * Pow10(n - 1)

\* s.id === chosen, for a positive integer id below 10^9.
NumberIs(v, id) ==
    /\ v.kind = "num"
    /\ ~v.neg
    /\ v.exp >= 0
    /\ Len(v.mant) + v.exp <= 9
    /\ ToNat(v.mant) * Pow10(v.exp) = id

\* ------------------------------------------------------------------------
\* Booking dialogue: configuration, catalog, sessions
\* ------------------------------------------------------------------------

\* The slot catalog of lines 32-36.
SLOTS == << [id |-> 1, when |-> "Hoje 16:00"],
            [id |-> 2, when |-> "Amanhã 10:30"],
            [id |-> 3, when |-> "Amanhã 15:00"] >>

\* SLOTS.find(s => s.id === chosen): the first matching slot, as a sequence
\* of length 0 (undefined) or 1.
FindSlot(chosen) ==
    IF \E i \in 1..Len(SLOTS) : NumberIs(chosen, SLOTS[i].id)
    THEN << SLOTS[CHOOSE i \in 1..Len(SLOTS) :
                    /\ NumberIs(chosen, SLOTS[i].id)
                    /\ \A j \in 1..(i - 1) : ~NumberIs(chosen, SLOTS[j].id)] >>
    ELSE << >>

CancelWord   == <<"c","a","n","c","e","l","a","r">>
ScheduleWord == <<"a","g","e","n","d","a","r">>
ConfirmWord  == <<"c","o","n","f","i","r","m","o">>

\* data: {} is the function with the empty domain; a property is set when
\* its name is in the domain.  name and phone are texts, slot is a label.
EmptyData == [f \in {} |-> << >>]

\* Faulty variant: a property that is already set keeps its value.
SetProp_KeepsOld(data, f, v) ==
    [g \in (DOMAIN data) \cup {f} |-> IF g \in DOMAIN data THEN data[g] ELSE v]

\* session.data.f = v
SetProp(data, f, v) == [g \in (DOMAIN data) \cup {f} |-> IF g = f THEN v ELSE data[g]]

\* { step: "idle", data: {} }
FreshSession == [step |-> "idle", data |-> EmptyData]

\* `${x}` of a text property: the text, or "undefined" when it is not set.
UndefinedText == <<"u","n","d","e","f","i","n","e","d">>

ShowText(data, f) == IF f \in DOMAIN data THEN data[f] ELSE UndefinedText

ShowLabel(data, f) == IF f \in DOMAIN data THEN data[f] ELSE "undefined"

\* session.data?.name || from : an unset or empty name is falsy.
NameOrFrom(data, from) ==
    IF "name" \in DOMAIN data /\ data["name"] # << >> THEN data["name"] ELSE from

\* One sendText(to, body) call: the template of the body and the values
\* interpolated into it.
Msg(to, kind, name, phone, slot) ==
    [to |-> to, kind |-> kind, name |-> name, phone |-> phone, slot |-> slot]

\* ------------------------------------------------------------------------
\* The branch taken by POST /webhook, and what it does before its first await
\* ------------------------------------------------------------------------

\* Whether (msg.text?.body || "").trim() of line 57 throws a TypeError: the
\* body is truthy and not a string, so it is kept by || and has no trim.
Throws(msg) == msg.type = "truthy"

\* (msg.text?.body || "").trim() when it does not throw: a body that is
\* undefined, null or another falsy value gives way to "".
MessageText(msg) == IF msg.type = "string" THEN Trim(msg.body) ELSE << >>

\* Faulty variant: the step branches tested before the schedule word.
Rule_StepFirst(step, text) ==
    IF TestWord(CancelWord, text) THEN 1
    ELSE IF step = "get_name" THEN 3
    ELSE IF step = "get_phone" THEN 4
    ELSE IF step = "offer_slots" THEN 5
    ELSE IF TestWord(ScheduleWord, text) \/ step = "idle" THEN 2
    ELSE IF step = "confirm" /\ TestWord(ConfirmWord, text) THEN 6
    ELSE 7

\* Faulty variant: the schedule test made before the cancel test.
Rule_ScheduleFirst(step, text) ==
    IF TestWord(ScheduleWord, text) \/ step = "idle" THEN 2
    ELSE IF TestWord(CancelWord, text) THEN 1
    ELSE IF step = "get_name" THEN 3
    ELSE IF step = "get_phone" THEN 4
    ELSE IF step = "offer_slots" THEN 5
    ELSE IF step = "confirm" /\ TestWord(ConfirmWord, text) THEN 6
    ELSE 7

\* The first branch of lines 66-127 whose condition holds, numbered 1..7.
Rule(step, text) ==
    IF TestWord(CancelWord, text) THEN 1
    ELSE IF TestWord(ScheduleWord, text) \/ step = "idle" THEN 2
    ELSE IF step = "get_name" THEN 3
    ELSE IF step = "get_phone" THEN 4
    ELSE IF step = "offer_slots" THEN 5
    ELSE IF step = "confirm" /\ TestWord(ConfirmWord, text) THEN 6
    ELSE 7

\* Faulty variant: the name branch skips the phone and offers the slots.
Mutate_NameSkipsPhone(session, text) ==
    LET rule == Rule(session.step, text)
        slot == FindSlot(Number(text))
    IN  CASE rule = 2 -> [session EXCEPT !.step = "get_name"]
          [] rule = 3 -> [step |-> "offer_slots",
                          data |-> SetProp(session.data, "name", text)]
          [] rule = 4 -> [step |-> "offer_slots",
                          data |-> SetProp(session.data, "phone", StripNonDigits(text))]
          [] rule = 5 -> IF slot = << >> THEN session
                         ELSE [step |-> "confirm",
                               data |-> SetProp(session.data, "slot", slot[1].when)]
          [] OTHER    -> session

\* Faulty variant: the step advances to confirm although no slot was found.
Mutate_BadSlotAdvances(session, text) ==
    LET rule == Rule(session.step, text)
        slot == FindSlot(Number(text))
    IN  CASE rule = 2 -> [session EXCEPT !.step = "get_name"]
          [] rule = 3 -> [step |-> "get_phone",
                          data |-> SetProp(session.data, "name", text)]
          [] rule = 4 -> [step |-> "offer_slots",
                          data |-> SetProp(session.data, "phone", StripNonDigits(text))]
          [] rule = 5 -> IF slot = << >> THEN [session EXCEPT !.step = "confirm"]
                         ELSE [step |-> "confirm",
                               data |-> SetProp(session.data, "slot", slot[1].when)]
          [] OTHER    -> session

\* The writes to the session object made by the branch before it awaits.
Mutate(session, text) ==
    LET rule == Rule(session.step, text)
        slot == FindSlot(Number(text))
    IN  CASE rule = 2 -> [session EXCEPT !.step = "get_name"]
          [] rule = 3 -> [step |-> "get_phone",
                          data |-> SetProp(session.data, "name", text)]
          [] rule = 4 -> [step |-> "offer_slots",
                          data |-> SetProp(session.data, "phone", StripNonDigits(text))]
          [] rule = 5 -> IF slot = << >> THEN session
                         ELSE [step |-> "confirm",
                               data |-> SetProp(session.data, "slot", slot[1].when)]
          [] OTHER    -> session

\* The first sendText of the branch; session is the object before the writes.
FirstSend(session, from, text) ==
    LET rule == Rule(session.step, text)
        slot == FindSlot(Number(text))
    IN  CASE rule = 1 -> Msg(from, "cancel_ok", << >>, << >>, "")
          [] rule = 2 -> Msg(from, "ask_name", << >>, << >>, "")
          [] rule = 3 -> Msg(from, "ask_phone", << >>, << >>, "")
          [] rule = 4 -> Msg(from, "slots", ShowText(session.data, "name"), << >>, "")
          [] rule = 5 -> IF slot = << >>
                         THEN Msg(from, "bad_slot", << >>, << >>, "")
                         ELSE Msg(from, "ask_confirm", << >>, << >>, slot[1].when)
          [] rule = 6 -> Msg(from, "confirmed", << >>, << >>,
                             ShowLabel(session.data, "slot"))
          [] OTHER    -> Msg(from, "fallback", << >>, << >>, "")

\* Faulty variant: the fallback falls into the rest of the confirm branch.
AwaitAfter_FallbackConfirms(rule) ==
    IF rule = 1 THEN "cancel_1" ELSE IF rule \in {6, 7} THEN "confirm_1" ELSE "reply"

\* Where the handler is suspended after the first sendText of the branch.
AwaitAfter(rule) ==
    IF rule = 1 THEN "cancel_1" ELSE IF rule = 6 THEN "confirm_1" ELSE "reply"

\* ------------------------------------------------------------------------
\* Bounds and inputs
\* ------------------------------------------------------------------------

\* Requests to POST /webhook that can be in flight at once.
MaxHandlers == 2

\* Messages delivered in one run.
MaxTurns == 5

\* WhatsApp numbers of the patients.
Senders == { <<"5","5","1">> }

\* Values of process.env.DENTIST_NUMBER; << >> is unset (or empty): falsy.
DentistNumbers == { << >>, <<"5","5","9">> }

\* Message bodies: the three command words in several cases and paddings, a
\* near miss of a command that also serves as a name, a phone number with
\* punctuation, and slot choices that Number() accepts, one of them between
\* white space other than blanks.
Bodies ==
    { <<"c","a","n","c","e","l","a","r">>,
      <<" ","C","a","n","c","e","l","a","R","\n">>,
      <<"a","g","e","n","d","a","r">>,
      <<"A","G","E","N","D","A","R"," ">>,
      <<"c","o","n","f","i","r","m","o">>,
      <<"\t","C","o","n","f","i","r","m","o">>,
      <<"a","g","e","n","d","a","r"," ","A","n","a">>,
      <<"(","1",")"," ","2">>,
      <<"\f","2"," ","U+2028">>,
      <<"3",".","0">> }

\* What msg.text?.body can be besides a string: undefined (no text, no
\* body, or null), another falsy value (0, false), or a truthy value that
\* is not a string (42, true, an array, an object).
OtherBodies == { "undefined", "falsy", "truthy" }

\* value.messages[0] of the payload: the sender and the text body, which is
\* a string or one of the other JSON values.
Messages ==
    [from : Senders, type : {"string"}, body : Bodies]
      \cup [from : Senders, type : OtherBodies, body : {<< >>}]

\* ------------------------------------------------------------------------
\* State
\* ------------------------------------------------------------------------

VARIABLES
    DENTIST,            \* process.env.DENTIST_NUMBER
    sessions,           \* the Map of line 30: sender -> session object
    handlers,           \* the suspended invocations of POST /webhook, oldest first
    last,               \* the request answered most recently
    turns,              \* messages delivered so far
    audit,              \* history: the latest episode of overlapping requests
    META_VERIFY_TOKEN,  \* process.env.META_VERIFY_TOKEN
    handshake,          \* the latest GET /webhook request and its response
    googleTokensStore,  \* the Map of line 238: dentist id -> tokens
    callbacks,          \* the suspended invocations of GET /google/callback
    answer              \* the latest GET /google/callback response

chatVars == <<DENTIST, sessions, handlers, last, turns>>

verifyVars == <<META_VERIFY_TOKEN, handshake>>

oauthVars == <<googleTokensStore, callbacks, answer>>

vars == <<DENTIST, sessions, handlers, last, turns, audit,
          META_VERIFY_TOKEN, handshake, googleTokensStore, callbacks, answer>>

\* The invocations in flight, by position.
Handlers == 1..Len(handlers)

\* A suspended invocation: pc is the await it is suspended at, rule the branch
\* taken, sent the sendText calls made so far, failed whether one of them was
\* logged as failed by line 25.  held is its `session` reference: << >>
\* while that is the object stored in sessions under from, <<object>> once
\* sessions.set has put another object there.
Handler(pc, from, rule, sent) ==
    [pc |-> pc, from |-> from, rule |-> rule, held |-> << >>, sent |-> sent,
     failed |-> FALSE]

\* No request answered yet.
NoResponse ==
    [from |-> << >>, rule |-> 0, status |-> 0, caught |-> FALSE, failed |-> FALSE]

\* The object behind handler h's `session` variable.
SessionOf(h) ==
    IF handlers[h].held = << >> THEN sessions[handlers[h].from]
    ELSE handlers[h].held[1]

\* The sequence without its element at position h.
RemoveAt(seq, h) == SubSeq(seq, 1, h - 1) \o SubSeq(seq, h + 1, Len(seq))

\* No episode on record.  n is the number of requests of the episode, open
\* the positions of those still in flight, base the sender's session before
\* the first one, t1, t2 the texts and sent1, sent2 the sendText calls of the
\* two requests, h1, h2 their positions while in flight.
\* For requests handled one at a time, flow holds the properties written to
\* data since the step was last set to get_name, and left the slot label
\* that data held when it was.
NoEpisode ==
    [n |-> 0, open |-> {}, from |-> << >>, base |-> FreshSession,
     h1 |-> 0, t1 |-> << >>, sent1 |-> << >>,
     h2 |-> 0, t2 |-> << >>, sent2 |-> << >>,
     flow |-> EmptyData, left |-> << >>]

\* No handshake request yet.  An optional string (a query parameter, an
\* environment variable) is << >> when undefined and <<s>> when it is s.
NoHandshake ==
    [route |-> 0, mode |-> << >>, token |-> << >>, challenge |-> << >>,
     status |-> 0, body |-> << >>]

\* No callback answered yet.  stored tells whether the callback answered had
\* executed the googleTokensStore.set of line 337 (it then has its tokens).
NoAnswer == [dentistId |-> "", stage |-> "", status |-> 0, stored |-> FALSE]

\* The process after start-up, as far as the dialogue goes.
ChatInit ==
    /\ audit = NoEpisode
    /\ sessions = [f \in {} |-> FreshSession]
    /\ handlers = << >>
    /\ last = NoResponse
    /\ turns = 0

\* The process after start-up, as far as the handshake goes.
VerifyInit == handshake = NoHandshake

\* The process after start-up, as far as the OAuth callback goes.
OAuthInit ==
    /\ googleTokensStore = [d \in {} |-> << >>]
    /\ callbacks = << >>
    /\ answer = NoAnswer

Init ==
    /\ ChatInit /\ VerifyInit /\ OAuthInit
    /\ DENTIST \in DentistNumbers
    /\ META_VERIFY_TOKEN = << >>

\* ------------------------------------------------------------------------
\* sendText and the continuations of POST /webhook
\* ------------------------------------------------------------------------

\* Faulty variant: sendText without its try/catch, a failed post rejects.
SendTextRethrows(ok) == ~ok

\* Whether sendText rejects when the HTTP post fails: it never does, the
\* catch of lines 24-26 logs the error and the promise resolves.
SendTextThrows(ok) == FALSE

\* res.sendStatus(200) of handler h, from the branch or from the catch of
\* lines 129-132.
Respond(h, ok, caught) ==
    last' = [from |-> handlers[h].from, rule |-> handlers[h].rule,
             status |-> 200, caught |-> caught,
             failed |-> handlers[h].failed \/ ~ok]

\* Faulty variant: the response without the sessions.set before it.
ResetAndRespond_NoWrite(h, ok) ==
    /\ handlers' = RemoveAt(handlers, h)
    /\ Respond(h, ok, FALSE)
    /\ UNCHANGED sessions

\* sessions.set(from, { step: "idle", data: {} }) by handler h, followed by
\* res.sendStatus(200).  The other handlers that still read their `session`
\* (those of the cancel and confirm branches) keep the replaced object.
ResetAndRespond(h, ok) ==
    LET from == handlers[h].from
        kept == [g \in Handlers |->
                   IF /\ g # h
                      /\ handlers[g].pc \in {"cancel_1", "cancel_2", "confirm_1", "confirm_2"}
                      /\ handlers[g].from = from
                      /\ handlers[g].held = << >>
                   THEN [handlers[g] EXCEPT !.held = << sessions[from] >>]
                   ELSE handlers[g]]
    IN  /\ sessions' = [sessions EXCEPT ![from] = FreshSession]
        /\ handlers' = RemoveAt(kept, h)
        /\ Respond(h, ok, FALSE)

\* return res.sendStatus(200) without a write to the Map.
JustRespond(h, ok, caught) ==
    /\ handlers' = RemoveAt(handlers, h)
    /\ Respond(h, ok, caught)
    /\ UNCHANGED sessions

\* Lines 52-54: a payload without a message is acknowledged.
Ignore ==
    /\ last' = [NoResponse EXCEPT !.status = 200]
    /\ UNCHANGED <<DENTIST, sessions, handlers, turns>>

\* Lines 57, 129-132: the trim of a body that is not a string throws before
\* the session is looked up; the catch answers 200 and nothing is sent.
Reject(msg) ==
    /\ Throws(msg)
    /\ last' = [NoResponse EXCEPT !.from = msg.from, !.status = 200,
                                  !.caught = TRUE]
    /\ UNCHANGED <<DENTIST, sessions, handlers, turns>>

\* Lines 52-127 up to the first await: look the session up (creating it),
\* pick the branch, write to the session object, start the first sendText.
Accept(msg) ==
    LET from    == msg.from
        text    == MessageText(msg)
        created == IF from \in DOMAIN sessions THEN sessions
                   ELSE [f \in (DOMAIN sessions) \cup {from} |->
                           IF f = from THEN FreshSession ELSE sessions[f]]
        session == created[from]
        rule    == Rule(session.step, text)
    IN  /\ ~Throws(msg)
        /\ sessions' = [created EXCEPT ![from] = Mutate(session, text)]
        /\ handlers' = Append(handlers,
                              Handler(AwaitAfter(rule), from, rule,
                                      << FirstSend(session, from, text) >>))
        /\ UNCHANGED <<DENTIST, last>>

\* A message is delivered while other requests may be in flight.
Receive(msg) ==
    /\ Len(handlers) < MaxHandlers
    /\ turns < MaxTurns
    /\ turns' = turns + 1
    /\ Accept(msg)

\* Lines 68-70: after the cancellation reply, alert the dentist if one is
\* configured, else reset the session and respond.
CancelContinue(h, ok) ==
    /\ handlers[h].pc = "cancel_1"
    /\ IF SendTextThrows(ok) THEN JustRespond(h, ok, TRUE)
       ELSE IF DENTIST # << >>
       THEN /\ handlers' = [handlers EXCEPT
                  ![h].pc = "cancel_2",
                  ![h].failed = @ \/ ~ok,
                  ![h].sent = Append(@, Msg(DENTIST, "cancel_alert",
                                NameOrFrom(SessionOf(h).data, handlers[h].from),
                                << >>, ""))]
            /\ UNCHANGED <<sessions, last>>
       ELSE ResetAndRespond(h, ok)
    /\ UNCHANGED <<DENTIST, turns>>

\* Lines 69-70, after the alert to the dentist.
CancelFinish(h, ok) ==
    /\ handlers[h].pc = "cancel_2"
    /\ IF SendTextThrows(ok) THEN JustRespond(h, ok, TRUE) ELSE ResetAndRespond(h, ok)
    /\ UNCHANGED <<DENTIST, turns>>

\* Lines 75, 83, 94, 102, 110, 128: respond after the only sendText.
ReplyFinish(h, ok) ==
    /\ handlers[h].pc = "reply"
    /\ JustRespond(h, ok, SendTextThrows(ok))
    /\ UNCHANGED <<DENTIST, turns>>

\* Faulty variant: the booking notice goes to the patient, not to the dentist.
ConfirmContinue_ToSender(h, ok) ==
    /\ handlers[h].pc = "confirm_1"
    /\ IF SendTextThrows(ok) THEN JustRespond(h, ok, TRUE)
       ELSE IF DENTIST # << >>
       THEN /\ handlers' = [handlers EXCEPT
                  ![h].pc = "confirm_2",
                  ![h].failed = @ \/ ~ok,
                  ![h].sent = Append(@, Msg(handlers[h].from, "booking",
                                ShowText(SessionOf(h).data, "name"),
                                ShowText(SessionOf(h).data, "phone"),
                                ShowLabel(SessionOf(h).data, "slot")))]
            /\ UNCHANGED <<sessions, last>>
       ELSE ResetAndRespond(h, ok)
    /\ UNCHANGED <<DENTIST, turns>>

\* Lines 116-123: after the confirmation reply, send the booking notice to
\* the dentist if one is configured, else reset the session and respond.
ConfirmContinue(h, ok) ==
    /\ handlers[h].pc = "confirm_1"
    /\ IF SendTextThrows(ok) THEN JustRespond(h, ok, TRUE)
       ELSE IF DENTIST # << >>
       THEN /\ handlers' = [handlers EXCEPT
                  ![h].pc = "confirm_2",
                  ![h].failed = @ \/ ~ok,
                  ![h].sent = Append(@, Msg(DENTIST, "booking",
                                ShowText(SessionOf(h).data, "name"),
                                ShowText(SessionOf(h).data, "phone"),
                                ShowLabel(SessionOf(h).data, "slot")))]
            /\ UNCHANGED <<sessions, last>>
       ELSE ResetAndRespond(h, ok)
    /\ UNCHANGED <<DENTIST, turns>>

\* Lines 122-123, after the notice to the dentist.
ConfirmFinish(h, ok) ==
    /\ handlers[h].pc = "confirm_2"
    /\ IF SendTextThrows(ok) THEN JustRespond(h, ok, TRUE) ELSE ResetAndRespond(h, ok)
    /\ UNCHANGED <<DENTIST, turns>>

\* The dialogue leaves the handshake and the token store alone.
Others == UNCHANGED <<META_VERIFY_TOKEN, handshake, googleTokensStore, callbacks, answer>>

Next ==
    \/ Ignore /\ UNCHANGED audit /\ Others
    \/ \E msg \in Messages : Reject(msg) /\ UNCHANGED audit /\ Others
    \/ \E msg \in Messages : Receive(msg) /\ UNCHANGED audit /\ Others
    \/ \E h \in Handlers, ok \in BOOLEAN :
          CancelContinue(h, ok) /\ UNCHANGED audit /\ Others
    \/ \E h \in Handlers, ok \in BOOLEAN :
          CancelFinish(h, ok) /\ UNCHANGED audit /\ Others
    \/ \E h \in Handlers, ok \in BOOLEAN :
          ReplyFinish(h, ok) /\ UNCHANGED audit /\ Others
    \/ \E h \in Handlers, ok \in BOOLEAN :
          ConfirmContinue(h, ok) /\ UNCHANGED audit /\ Others
    \/ \E h \in Handlers, ok \in BOOLEAN :
          ConfirmFinish(h, ok) /\ UNCHANGED audit /\ Others

Spec == Init /\ [][Next]_vars

\* ------------------------------------------------------------------------
\* The handler run alone: lines 50-133 with nothing in between its steps
\* ------------------------------------------------------------------------

\* The session stored and the sendText calls made when the handler runs to
\* completion on the stored session with no other request in flight.
Turn(session, from, text) ==
    LET rule    == Rule(session.step, text)
        written == Mutate(session, text)
        first   == << FirstSend(session, from, text) >>
        second  ==
            IF DENTIST = << >> THEN << >>
            ELSE IF rule = 1
            THEN << Msg(DENTIST, "cancel_alert",
                        NameOrFrom(written.data, from), << >>, "") >>
            ELSE IF rule = 6
            THEN << Msg(DENTIST, "booking", ShowText(written.data, "name"),
                        ShowText(written.data, "phone"),
                        ShowLabel(written.data, "slot")) >>
            ELSE << >>
    IN  [session |-> IF rule \in {1, 6} THEN FreshSession ELSE written,
         sent    |-> first \o second]

\* ------------------------------------------------------------------------
\* History of overlapping requests (observes the handlers, changes nothing)
\* ------------------------------------------------------------------------

\* A request arrives: it opens an episode when no request of its sender is
\* in flight, joins the open episode of its sender as the second request, and
\* voids the episode as a third.
AuditReceive(msg) ==
    LET from == msg.from
        h    == Len(handlers) + 1
        base == IF from \in DOMAIN sessions THEN sessions[from] ELSE FreshSession
        busy == {g \in Handlers : handlers[g].from = from}
    IN  audit' =
          IF busy = {}
          THEN IF audit.open = {}
               THEN [NoEpisode EXCEPT !.n = 1, !.open = {h}, !.from = from,
                                      !.base = base, !.h1 = h,
                                      !.t1 = MessageText(msg)]
               ELSE audit
          ELSE IF audit.from = from
          THEN IF audit.n = 1 /\ audit.open = busy
               THEN [audit EXCEPT !.n = 2, !.open = @ \cup {h}, !.h2 = h,
                                  !.t2 = MessageText(msg)]
               ELSE NoEpisode
          ELSE audit

\* Position g after the handler at position h has left.
Shift(g, h) == IF g = h THEN 0 ELSE IF g > h THEN g - 1 ELSE g

\* A handler resumes: when it responds, its sendText calls go on record and
\* the positions behind it move up.
AuditResume(h) ==
    audit' =
      IF Len(handlers') = Len(handlers) THEN audit
      ELSE [audit EXCEPT
              !.open  = {Shift(g, h) : g \in @ \ {h}},
              !.h1    = Shift(@, h),
              !.h2    = Shift(@, h),
              !.sent1 = IF h = audit.h1 THEN handlers[h].sent ELSE @,
              !.sent2 = IF h = audit.h2 THEN handlers[h].sent ELSE @]

\* The same steps with the history kept.
NextRace ==
    \/ Ignore /\ UNCHANGED audit /\ Others
    \/ \E msg \in Messages : Reject(msg) /\ UNCHANGED audit /\ Others
    \/ \E msg \in Messages : Receive(msg) /\ AuditReceive(msg) /\ Others
    \/ \E h \in Handlers, ok \in BOOLEAN :
          CancelContinue(h, ok) /\ AuditResume(h) /\ Others
    \/ \E h \in Handlers, ok \in BOOLEAN :
          CancelFinish(h, ok) /\ AuditResume(h) /\ Others
    \/ \E h \in Handlers, ok \in BOOLEAN :
          ReplyFinish(h, ok) /\ AuditResume(h) /\ Others
    \/ \E h \in Handlers, ok \in BOOLEAN :
          ConfirmContinue(h, ok) /\ AuditResume(h) /\ Others
    \/ \E h \in Handlers, ok \in BOOLEAN :
          ConfirmFinish(h, ok) /\ AuditResume(h) /\ Others

SpecRace == Init /\ [][NextRace]_vars

\* ------------------------------------------------------------------------
\* Requests handled one at a time, with the history of the flow
\* ------------------------------------------------------------------------

\* A message is delivered when no request is in flight.  The history keeps
\* the session it found (base), its text (t1), and what the branch taken
\* wrote to data since the step was last set to get_name (flow).
ReceiveAlone(msg) ==
    LET from   == msg.from
        base   == IF from \in DOMAIN sessions THEN sessions[from] ELSE FreshSession
        rule   == handlers'[1].rule
        after  == sessions'[from]
    IN  /\ handlers = << >>
        /\ Accept(msg)
        /\ UNCHANGED turns
        /\ audit' =
              [audit EXCEPT
                 !.n = 1, !.from = from, !.base = base, !.t1 = MessageText(msg),
                 !.flow = CASE rule = 2 -> EmptyData
                            [] rule = 3 -> SetProp(@, "name", after.data["name"])
                            [] rule = 4 -> SetProp(@, "phone", after.data["phone"])
                            [] rule = 5 /\ after.step # base.step ->
                                           SetProp(@, "slot", after.data["slot"])
                            [] OTHER -> @,
                 !.left = IF rule # 2 THEN @
                          ELSE IF "slot" \in DOMAIN base.data
                          THEN << base.data["slot"] >> ELSE << >>]

\* The handler in flight resumes; a reset of the session ends the flow.
ResumeAlone ==
    audit' = IF sessions' = sessions THEN audit
             ELSE [audit EXCEPT !.flow = EmptyData, !.left = << >>]

NextSerial ==
    \/ Ignore /\ UNCHANGED audit /\ Others
    \/ \E msg \in Messages : Reject(msg) /\ UNCHANGED audit /\ Others
    \/ \E msg \in Messages : ReceiveAlone(msg) /\ Others
    \/ \E h \in Handlers, ok \in BOOLEAN :
          CancelContinue(h, ok) /\ ResumeAlone /\ Others
    \/ \E h \in Handlers, ok \in BOOLEAN :
          CancelFinish(h, ok) /\ ResumeAlone /\ Others
    \/ \E h \in Handlers, ok \in BOOLEAN :
          ReplyFinish(h, ok) /\ ResumeAlone /\ Others
    \/ \E h \in Handlers, ok \in BOOLEAN :
          ConfirmContinue(h, ok) /\ ResumeAlone /\ Others
    \/ \E h \in Handlers, ok \in BOOLEAN :
          ConfirmFinish(h, ok) /\ ResumeAlone /\ Others

SpecSerial == Init /\ [][NextSerial]_vars


\* ------------------------------------------------------------------------
\* GET /webhook: the subscription handshake
\* ------------------------------------------------------------------------

\* Values of process.env.META_VERIFY_TOKEN: unset, empty, a secret.
VerifyTokens == { << >>, <<"">>, <<"s3cret">> }

\* Query strings: hub.mode, hub.verify_token and hub.challenge, each optional.
Queries ==
    [mode      : { << >>, <<"subscribe">>, <<"unsubscribe">> },
     token     : { << >>, <<"">>, <<"s3cret">>, <<"guess">> },
     challenge : { << >>, <<"1158201444">> }]

\* Lines 39-47: mode === "subscribe" && token === process.env.META_VERIFY_TOKEN.
WebhookVerify(q, secret) ==
    IF q.mode = <<"subscribe">> /\ q.token = secret
    THEN [status |-> 200, body |-> q.challenge]
    ELSE [status |-> 403, body |-> << >>]

\* Lines 365-381: the same test inside a try whose catch answers 500;
\* nothing in the try throws.
WebhookVerify2(q, secret) ==
    IF q.mode = <<"subscribe">> /\ q.token = secret
    THEN [status |-> 200, body |-> q.challenge]
    ELSE [status |-> 403, body |-> << >>]

\* One GET /webhook request served by the handler of lines 39-47 (route 1)
\* or by that of lines 365-381 (route 2).
Verify(route, q) ==
    LET res == IF route = 1 THEN WebhookVerify(q, META_VERIFY_TOKEN)
               ELSE WebhookVerify2(q, META_VERIFY_TOKEN)
    IN  /\ handshake' = [route |-> route, mode |-> q.mode, token |-> q.token,
                         challenge |-> q.challenge,
                         status |-> res.status, body |-> res.body]
        /\ UNCHANGED <<META_VERIFY_TOKEN, chatVars, audit, oauthVars>>

\* ------------------------------------------------------------------------
\* POST /webhook of lines 386-434: the handler that keeps no session
\* ------------------------------------------------------------------------

\* Whether msg.text?.body?.trim() of line 398 throws a TypeError: the body
\* is neither undefined nor null and not a string, so it has no trim.
Throws2(msg) == msg.type \in {"falsy", "truthy"}

\* msg.text?.body?.trim() || "" when it does not throw.
MessageText2(msg) == IF msg.type = "string" THEN Trim(msg.body) ELSE << >>

\* /^word/i.test(text), for a lower-case word without metacharacters.
TestPrefix(word, text) ==
    /\ Len(text) >= Len(word)
    /\ \A i \in 1..Len(word) : ToLower(text[i]) = word[i]

\* The alternatives of /^(conectar|conectar google|link google)/i.
ConnectWords ==
    { <<"c","o","n","e","c","t","a","r">>,
      <<"c","o","n","e","c","t","a","r"," ","g","o","o","g","l","e">>,
      <<"l","i","n","k"," ","g","o","o","g","l","e">> }

\* The first branch of lines 403-425 whose condition holds, numbered after
\* those of the first handler: 8 sends the link to /google/auth, 9 asks for
\* name, phone and address, 10 sends the greeting.
Rule2(text) ==
    IF \E word \in ConnectWords : TestPrefix(word, text) THEN 8
    ELSE IF TestPrefix(ScheduleWord, text) THEN 9
    ELSE 10

\* Whether the sendText of lines 254-277 rejects when the HTTP post fails:
\* it never does, its catch logs the error.
SendTextThrows2(ok) == FALSE

\* Message bodies: the connect phrases and the schedule word as prefixes, in
\* several cases and paddings, near misses, and a greeting.
Bodies2 ==
    { <<"c","o","n","e","c","t","a","r"," ","g","o","o","g","l","e">>,
      <<" ","C","o","n","e","c","t","a","r">>,
      <<"L","I","N","K"," ","G","O","O","G","L","E"," ","a","g","o","r","a">>,
      <<"l","i","n","k">>,
      <<"a","g","e","n","d","a","r">>,
      <<"A","g","e","n","d","a","r"," ","h","o","j","e"," ">>,
      <<"r","e","a","g","e","n","d","a","r">>,
      <<"o","i">> }

Messages2 ==
    [from : Senders, type : {"string"}, body : Bodies2]
      \cup [from : Senders, type : OtherBodies, body : {<< >>}]

\* Lines 392-395: a payload without a message is acknowledged.
Ignore2 ==
    /\ last' = [NoResponse EXCEPT !.status = 200]
    /\ UNCHANGED <<DENTIST, sessions, handlers, turns, audit, verifyVars, oauthVars>>

\* The Host header of the request by what new URL of line 404 makes of
\* `${req.protocol}://${req.get("host")}/google/auth`: a URL, or a TypeError
\* (a host with a blank, a port above 65535, an open bracket).
Hosts == { "valid", "invalid" }

\* Whether new URL of line 404 throws.
UrlThrows(host) == host = "invalid"

\* The sendText of the branch of lines 403-425.
FirstSend2(from, rule) ==
    Msg(from,
        IF rule = 8 THEN "link" ELSE IF rule = 9 THEN "ask_details" ELSE "greeting",
        << >>, << >>, "")

\* Lines 386-425 for a payload with a message, up to the await of sendText:
\* the branch is chosen by the text alone and the request stays in flight.
\* A body that has no trim, and in the link branch a Host that makes no
\* URL, throw before anything is sent: the catch of lines 428-433 answers
\* 500.
Receive2(msg, host) ==
    LET rule == Rule2(MessageText2(msg))
    IN  /\ IF Throws2(msg) \/ (rule = 8 /\ UrlThrows(host))
           THEN /\ last' = [NoResponse EXCEPT !.from = msg.from, !.status = 500,
                                              !.caught = TRUE]
                /\ UNCHANGED handlers
           ELSE /\ Len(handlers) < MaxHandlers
                /\ handlers' = Append(handlers,
                                      Handler("reply2", msg.from, rule,
                                              << FirstSend2(msg.from, rule) >>))
                /\ UNCHANGED last
        /\ UNCHANGED <<DENTIST, sessions, turns, audit, verifyVars, oauthVars>>

\* Lines 406-427: sendText has settled, res.sendStatus(200).
Reply2Finish(h, ok) ==
    /\ handlers[h].pc = "reply2"
    /\ handlers' = RemoveAt(handlers, h)
    /\ last' = [from |-> handlers[h].from, rule |-> handlers[h].rule,
                status |-> IF SendTextThrows2(ok) THEN 500 ELSE 200,
                caught |-> SendTextThrows2(ok), failed |-> ~ok]
    /\ UNCHANGED <<DENTIST, sessions, turns, audit, verifyVars, oauthVars>>

InitVerify ==
    /\ ChatInit /\ VerifyInit /\ OAuthInit
    /\ DENTIST = << >>
    /\ META_VERIFY_TOKEN \in VerifyTokens

\* The routes that keep nothing between requests.
NextVerify ==
    \/ \E route \in {1, 2}, q \in Queries : Verify(route, q)
    \/ Ignore2
    \/ \E msg \in Messages2, host \in Hosts : Receive2(msg, host)
    \/ \E h \in Handlers, ok \in BOOLEAN : Reply2Finish(h, ok)

SpecVerify == InitVerify /\ [][NextVerify]_vars

\* ------------------------------------------------------------------------
\* GET /google/callback and the token store
\* ------------------------------------------------------------------------

\* Callbacks that can be in flight at once.
MaxCallbacks == 2

\* The state query parameter by what lines 318-325 make of it: absent,
\* not JSON (JSON.parse throws), JSON without a truthy dentistId, or JSON
\* with dentistId id.
States ==
    { [kind |-> "absent",  id |-> ""],
      [kind |-> "invalid", id |-> ""],
      [kind |-> "noid",    id |-> ""],
      [kind |-> "id",      id |-> "default"],
      [kind |-> "id",      id |-> "clinic7"] }

\* Requests: with or without ?code=, and a state.
CallbackRequests == [hasCode : BOOLEAN, state : States]

\* What getToken can resolve to: tokens with and without a refresh_token.
TokenPayloads ==
    { [access_token |-> "ya29.A", refresh_token |-> "1//r1", expiry_date |-> 1],
      [access_token |-> "ya29.B", expiry_date |-> 2],
      [access_token |-> "ya29.C", refresh_token |-> "1//r3", expiry_date |-> 3] }

\* Lines 317-325: the dentist id the callback writes under.
DentistId(state) == IF state.kind = "id" THEN state.id ELSE "default"

\* Faulty variant: the new tokens merged into the record already stored.
StoreSet_Merge(store, dentistId, tokens) ==
    [d \in (DOMAIN store) \cup {dentistId} |->
        IF d # dentistId THEN store[d]
        ELSE IF d \notin DOMAIN store THEN tokens
        ELSE [f \in (DOMAIN store[d]) \cup (DOMAIN tokens) |->
                 IF f \in DOMAIN tokens THEN tokens[f] ELSE store[d][f]]]

\* googleTokensStore.set(dentistId, tokens)
StoreSet(store, dentistId, tokens) ==
    [d \in (DOMAIN store) \cup {dentistId} |->
        IF d = dentistId THEN tokens ELSE store[d]]

\* googleTokensStore.get(dentistId): the record, as a sequence of length 0
\* (undefined) or 1.
StoreGet(store, dentistId) ==
    IF dentistId \in DOMAIN store THEN << store[dentistId] >> ELSE << >>

\* The invocations in flight, by position.  pc is the await an invocation
\* is suspended at, tokens its `tokens` constant once getToken has resolved,
\* replaced (history) the record its googleTokensStore.set wrote over.
Callbacks == 1..Len(callbacks)

\* Lines 310-334 up to the await of getToken, in the handler that stores
\* the tokens: 400 without a code, else the exchange starts.
CallbackStart(req) ==
    /\ IF ~req.hasCode
       THEN /\ answer' = [dentistId |-> "", stage |-> "code", status |-> 400,
                          stored |-> FALSE]
            /\ UNCHANGED callbacks
       ELSE /\ Len(callbacks) < MaxCallbacks
            /\ callbacks' = Append(callbacks,
                                   [pc |-> "getToken",
                                    dentistId |-> DentistId(req.state),
                                    tokens |-> << >>, replaced |-> << >>])
            /\ UNCHANGED answer
    /\ UNCHANGED <<googleTokensStore, chatVars, audit, verifyVars>>

\* Lines 177-180 up to the await of getToken: the handler that keeps no
\* tokens asks for no code, it passes req.query.code on as it is, undefined
\* included, and reads the state without using it.
CallbackStart1(req) ==
    /\ Len(callbacks) < MaxCallbacks
    /\ callbacks' = Append(callbacks,
                           [pc |-> "getToken1", dentistId |-> "",
                            tokens |-> << >>, replaced |-> << >>])
    /\ UNCHANGED <<answer, googleTokensStore, chatVars, audit, verifyVars>>

\* Lines 180-185: getToken resolves; the tokens are dropped and the callback
\* answers 200.
Exchange1Ok(c) ==
    /\ callbacks[c].pc = "getToken1"
    /\ answer' = [dentistId |-> "", stage |-> "done1", status |-> 200,
                  stored |-> FALSE]
    /\ callbacks' = RemoveAt(callbacks, c)
    /\ UNCHANGED <<googleTokensStore, chatVars, audit, verifyVars>>

\* Lines 180, 186-189: getToken rejects; the catch answers 500.
Exchange1Fail(c) ==
    /\ callbacks[c].pc = "getToken1"
    /\ answer' = [dentistId |-> "", stage |-> "getToken1", status |-> 500,
                  stored |-> FALSE]
    /\ callbacks' = RemoveAt(callbacks, c)
    /\ UNCHANGED <<googleTokensStore, chatVars, audit, verifyVars>>

\* Faulty variant: the store is replaced by one holding the new record only.
ExchangeOk_Clears(c, tokens) ==
    /\ callbacks[c].pc = "getToken"
    /\ googleTokensStore' = [d \in {callbacks[c].dentistId} |-> tokens]
    /\ callbacks' = [callbacks EXCEPT
                        ![c].pc = "list",
                        ![c].tokens = << tokens >>,
                        ![c].replaced = StoreGet(googleTokensStore,
                                                 callbacks[c].dentistId)]
    /\ UNCHANGED <<answer, chatVars, audit, verifyVars>>

\* Lines 331-341: getToken resolves; the tokens are stored and the calendar
\* listing starts.
ExchangeOk(c, tokens) ==
    /\ callbacks[c].pc = "getToken"
    /\ googleTokensStore' = StoreSet(googleTokensStore, callbacks[c].dentistId, tokens)
    /\ callbacks' = [callbacks EXCEPT
                        ![c].pc = "list",
                        ![c].tokens = << tokens >>,
                        ![c].replaced = StoreGet(googleTokensStore,
                                                 callbacks[c].dentistId)]
    /\ UNCHANGED <<answer, chatVars, audit, verifyVars>>

\* Faulty variant: the store is written before the exchange is known to succeed.
ExchangeFail_Stores(c) ==
    /\ callbacks[c].pc = "getToken"
    /\ answer' = [dentistId |-> callbacks[c].dentistId, stage |-> "getToken",
                  status |-> 500,
                  stored |-> callbacks[c].tokens # << >>]
    /\ callbacks' = RemoveAt(callbacks, c)
    /\ googleTokensStore' =
          StoreSet(googleTokensStore, callbacks[c].dentistId, [d \in {} |-> ""])
    /\ UNCHANGED <<chatVars, audit, verifyVars>>

\* Lines 331, 354-358: getToken rejects; the catch answers 500.
ExchangeFail(c) ==
    /\ callbacks[c].pc = "getToken"
    /\ answer' = [dentistId |-> callbacks[c].dentistId, stage |-> "getToken",
                  status |-> 500,
                  stored |-> callbacks[c].tokens # << >>]
    /\ callbacks' = RemoveAt(callbacks, c)
    /\ UNCHANGED <<googleTokensStore, chatVars, audit, verifyVars>>

\* Lines 341-353: the listing resolves; the callback answers 200.
ListOk(c) ==
    /\ callbacks[c].pc = "list"
    /\ answer' = [dentistId |-> callbacks[c].dentistId, stage |-> "done",
                  status |-> 200,
                  stored |-> callbacks[c].tokens # << >>]
    /\ callbacks' = RemoveAt(callbacks, c)
    /\ UNCHANGED <<googleTokensStore, chatVars, audit, verifyVars>>

\* Lines 341, 354-358: the listing rejects; the catch answers 500.
ListFail(c) ==
    /\ callbacks[c].pc = "list"
    /\ answer' = [dentistId |-> callbacks[c].dentistId, stage |-> "list",
                  status |-> 500,
                  stored |-> callbacks[c].tokens # << >>]
    /\ callbacks' = RemoveAt(callbacks, c)
    /\ UNCHANGED <<googleTokensStore, chatVars, audit, verifyVars>>

InitOAuth ==
    /\ ChatInit /\ VerifyInit /\ OAuthInit
    /\ DENTIST = << >>
    /\ META_VERIFY_TOKEN = << >>

NextOAuth ==
    \/ \E req \in CallbackRequests : CallbackStart(req)
    \/ \E req \in CallbackRequests : CallbackStart1(req)
    \/ \E c \in Callbacks : Exchange1Ok(c)
    \/ \E c \in Callbacks : Exchange1Fail(c)
    \/ \E c \in Callbacks, tokens \in TokenPayloads : ExchangeOk(c, tokens)
    \/ \E c \in Callbacks : ExchangeFail(c)
    \/ \E c \in Callbacks : ListOk(c)
    \/ \E c \in Callbacks : ListFail(c)

SpecOAuth == InitOAuth /\ [][NextOAuth]_vars

\* ------------------------------------------------------------------------
\* Claims
\* ------------------------------------------------------------------------

\* The text is the word, each letter in either case.
AnyCase(word, text) ==
    /\ Len(text) = Len(word)
    /\ \A i \in 1..Len(word) : text[i] = word[i] \/ ToLower(text[i]) = word[i]

\* The step of a sender's session, a sender not seen yet being idle.
StepOf(from) == IF from \in DOMAIN sessions THEN sessions[from].step ELSE "idle"

\* The handler that the Receive step of this transition has started.
Started == handlers'[Len(handlers')]

\* C1: a message whose trimmed text is the cancel word in any case takes the
\* cancel branch whatever the session's step and data, and when that handler
\* responds the sender's stored session is { step: idle, data: {} }.
C1_CancelResets ==
    [][/\ \A msg \in Messages :
            (Receive(msg) /\ AnyCase(CancelWord, MessageText(msg)))
               => Started.rule = 1 /\ Started.pc = "cancel_1"
       /\ \A h \in Handlers, ok \in BOOLEAN :
            ((CancelContinue(h, ok) \/ CancelFinish(h, ok))
                /\ Len(handlers') < Len(handlers))
               => /\ sessions'[handlers[h].from] = FreshSession
                  /\ last'.rule = 1
                  /\ last'.status = 200]_vars

\* A cancel has been answered and the sender's stored session is fresh.
C1_Witness ==
    /\ last.rule = 1
    /\ last.status = 200
    /\ sessions[last.from] = FreshSession

\* C2: in every stored session, phone is set only at offer_slots or confirm,
\* slot is set only at confirm, and an idle session has empty data.
C2_DataFollowsStep ==
    \A f \in DOMAIN sessions :
        /\ "phone" \in DOMAIN sessions[f].data
              => sessions[f].step \in {"offer_slots", "confirm"}
        /\ "slot" \in DOMAIN sessions[f].data => sessions[f].step = "confirm"
        /\ sessions[f].step = "idle" => sessions[f].data = EmptyData

\* The outcome of handling text ta and then text tb, one after the other.
Serial(base, from, ta, tb) ==
    LET a == Turn(base, from, ta)
        b == Turn(a.session, from, tb)
    IN  [session |-> b.session, senta |-> a.sent, sentb |-> b.sent]

\* Sanity of Turn: a request handled alone ends as Turn says.
AloneMatchesTurn ==
    (audit.n = 1 /\ audit.open = {}) =>
        LET t == Turn(audit.base, audit.from, audit.t1)
        IN  sessions[audit.from] = t.session /\ audit.sent1 = t.sent

\* C3: two requests of one sender handled at once end as they would have
\* ended handled one after the other, in one of the two orders: the same
\* stored session and the same sendText calls for each.
C3_Serializable ==
    (audit.n = 2 /\ audit.open = {}) =>
        \/ LET s == Serial(audit.base, audit.from, audit.t1, audit.t2)
           IN  /\ sessions[audit.from] = s.session
               /\ audit.sent1 = s.senta
               /\ audit.sent2 = s.sentb
        \/ LET s == Serial(audit.base, audit.from, audit.t2, audit.t1)
           IN  /\ sessions[audit.from] = s.session
               /\ audit.sent2 = s.senta
               /\ audit.sent1 = s.sentb

\* Two requests of one sender overlapped and both have been answered.
C3_Witness == audit.n = 2 /\ audit.open = {}

\* C4: with META_VERIFY_TOKEN unset, every handshake request is answered 403.
C4_FailsClosed ==
    (META_VERIFY_TOKEN = << >> /\ handshake.status # 0) => handshake.status = 403

\* The schedule word arrives at a session in get_name, get_phone or offer_slots.
ScheduleMidFlow(msg) ==
    /\ Receive(msg)
    /\ AnyCase(ScheduleWord, MessageText(msg))
    /\ StepOf(msg.from) \in {"get_name", "get_phone", "offer_slots"}

\* C5 as stated: a schedule word sent at get_name, get_phone or offer_slots
\* is consumed by that step's branch (3, 4 or 5) and the flow is not restarted.
C5_StepRuleConsumesSchedule ==
    [][\A msg \in Messages : ScheduleMidFlow(msg) => Started.rule \in {3, 4, 5}]_vars

\* C5 amended: a schedule word sent at get_name, get_phone or offer_slots
\* is handled by the schedule branch, which comes before the step branches:
\* the step becomes get_name and the name prompt is sent.
C5_ScheduleRestarts ==
    [][\A msg \in Messages :
          ScheduleMidFlow(msg)
             => /\ Started.rule = 2
                /\ sessions'[msg.from].step = "get_name"
                /\ Started.sent = << Msg(msg.from, "ask_name", << >>, << >>, "") >>]_vars

\* The latest request restarted a flow that had collected a name but no slot.
C5_Witness ==
    /\ handlers # << >>
    /\ handlers[Len(handlers)].rule = 2
    /\ LET s == sessions[handlers[Len(handlers)].from]
       IN  /\ s.step = "get_name"
           /\ "name" \in DOMAIN s.data
           /\ "slot" \notin DOMAIN s.data

\* C6: a message that is not the cancel word, and is the schedule word in any
\* case or finds the session idle (a new sender included), sets the step to
\* get_name and sends the name prompt to the sender.
C6_ScheduleOrIdleAsksName ==
    [][\A msg \in Messages :
          (/\ Receive(msg)
           /\ ~AnyCase(CancelWord, MessageText(msg))
           /\ \/ AnyCase(ScheduleWord, MessageText(msg))
              \/ StepOf(msg.from) = "idle")
             => /\ sessions'[msg.from].step = "get_name"
                /\ Started.sent = << Msg(msg.from, "ask_name", << >>, << >>, "") >>]_vars

\* The name prompt was sent and the session awaits the name.
C6_Witness ==
    \E h \in Handlers :
        /\ handlers[h].sent = << Msg(handlers[h].from, "ask_name", << >>, << >>, "") >>
        /\ sessions[handlers[h].from].step = "get_name"

\* C7: at offer_slots, a message that is neither the cancel nor the schedule
\* word and whose Number() is no id of the catalog leaves the stored sessions
\* as they were and sends the error prompt to the sender.
C7_BadSlotKeepsSession ==
    [][\A msg \in Messages :
          (/\ Receive(msg)
           /\ StepOf(msg.from) = "offer_slots"
           /\ ~AnyCase(CancelWord, MessageText(msg))
           /\ ~AnyCase(ScheduleWord, MessageText(msg))
           /\ FindSlot(Number(MessageText(msg))) = << >>)
             => /\ sessions' = sessions
                /\ Started.sent = << Msg(msg.from, "bad_slot", << >>, << >>, "") >>]_vars

\* The error prompt was sent and the session is still at offer_slots.
C7_Witness ==
    \E h \in Handlers :
        /\ handlers[h].sent = << Msg(handlers[h].from, "bad_slot", << >>, << >>, "") >>
        /\ sessions[handlers[h].from].step = "offer_slots"
        /\ "slot" \notin DOMAIN sessions[handlers[h].from].data

\* C8: the confirm word at step confirm sends the sender the success message
\* with the session's slot label; then, if a dentist number is configured,
\* the booking notice with the session's name, phone and slot label goes to
\* it; then the sender's stored session is reset to { step: idle, data: {} }.
C8_ConfirmBooks ==
    [][/\ \A msg \in Messages :
            (/\ Receive(msg)
             /\ StepOf(msg.from) = "confirm"
             /\ AnyCase(ConfirmWord, MessageText(msg)))
               => /\ Started.pc = "confirm_1"
                  /\ Started.sent =
                       << Msg(msg.from, "confirmed", << >>, << >>,
                              sessions[msg.from].data["slot"]) >>
       /\ \A h \in Handlers, ok \in BOOLEAN :
            ConfirmContinue(h, ok)
               => IF DENTIST # << >>
                  THEN /\ Len(handlers'[h].sent) = 2
                       /\ handlers'[h].sent[2] =
                            Msg(DENTIST, "booking", SessionOf(h).data["name"],
                                SessionOf(h).data["phone"], SessionOf(h).data["slot"])
                       /\ sessions' = sessions
                  ELSE /\ sessions'[handlers[h].from] = FreshSession
                       /\ Len(handlers[h].sent) = 1
                       /\ Len(handlers') < Len(handlers)
       /\ \A h \in Handlers, ok \in BOOLEAN :
            ConfirmFinish(h, ok)
               => /\ sessions'[handlers[h].from] = FreshSession
                  /\ Len(handlers') < Len(handlers)]_vars

\* With a dentist number configured, a confirmation has been answered and
\* the stored session is fresh.
C8_Witness ==
    /\ DENTIST # << >>
    /\ last.rule = 6
    /\ last.status = 200
    /\ sessions[last.from] = FreshSession

\* C9: a sendText that fails changes nothing of what the handler does next:
\* it goes on to the next send or to the reset exactly as after a send that
\* succeeded, the catch of the handler never runs, and the stored session
\* after the response is the one the branch sets.
C9_SendFailureKeepsState ==
    [][\A h \in Handlers :
          /\ ReplyFinish(h, FALSE) => sessions' = sessions /\ ~last'.caught
          /\ (CancelContinue(h, FALSE) \/ ConfirmContinue(h, FALSE))
                => IF DENTIST # << >>
                   THEN /\ sessions' = sessions
                        /\ Len(handlers') = Len(handlers)
                        /\ Len(handlers'[h].sent) = 2
                   ELSE /\ sessions'[handlers[h].from] = FreshSession
                        /\ ~last'.caught
          /\ (CancelFinish(h, FALSE) \/ ConfirmFinish(h, FALSE))
                => sessions'[handlers[h].from] = FreshSession /\ ~last'.caught]_vars

\* A cancel or a confirmation one of whose sends failed has been answered,
\* and the stored session is fresh.
C9_Witness ==
    /\ last.failed
    /\ ~last.caught
    /\ last.rule \in {1, 6}
    /\ sessions[last.from] = FreshSession

\* C10: when getToken rejects, the callback answers 500 and the token store
\* is the one it was, in the handler that stores tokens and in the one that
\* does not.
C10_FailedExchangeWritesNothing ==
    [][\A c \in Callbacks :
          /\ ExchangeFail(c)
                => /\ googleTokensStore' = googleTokensStore
                   /\ answer'.status = 500
                   /\ answer'.stage = "getToken"
          /\ Exchange1Fail(c)
                => /\ googleTokensStore' = googleTokensStore
                   /\ answer'.status = 500]_vars

\* An exchange for one dentist failed: that dentist has no record, and the
\* record of another dentist is still there.
C10_Witness ==
    /\ answer.status = 500
    /\ answer.stage = "getToken"
    /\ answer.dentistId \notin DOMAIN googleTokensStore
    /\ DOMAIN googleTokensStore # {}

\* C11: a successful exchange leaves under its dentist id exactly the tokens
\* getToken returned, whatever record was there before, and a record is
\* created or changed by nothing but a successful exchange for its id; so
\* the record of an id is the payload of the latest successful exchange.
C11_LastExchangeWins ==
    [][/\ \A c \in Callbacks, tokens \in TokenPayloads :
            ExchangeOk(c, tokens)
               => googleTokensStore'[callbacks[c].dentistId] = tokens
       /\ \A d \in DOMAIN googleTokensStore' :
            (StoreGet(googleTokensStore', d) # StoreGet(googleTokensStore, d))
               => \E c \in Callbacks, tokens \in TokenPayloads :
                     /\ ExchangeOk(c, tokens)
                     /\ callbacks[c].dentistId = d
       /\ DOMAIN googleTokensStore \subseteq DOMAIN googleTokensStore']_vars

\* An exchange that returned no refresh_token has written over a record
\* that had one, and the stored record has none.
C11_Witness ==
    \E c \in Callbacks :
        /\ callbacks[c].pc = "list"
        /\ callbacks[c].replaced # << >>
        /\ "refresh_token" \in DOMAIN callbacks[c].replaced[1]
        /\ "refresh_token" \notin DOMAIN callbacks[c].tokens[1]
        /\ googleTokensStore[callbacks[c].dentistId] = callbacks[c].tokens[1]

\* C12: the googleTokensStore.set of a callback adds or replaces the record
\* of its own dentist id and leaves the record of every other id as it was.
C12_OtherRecordsUntouched ==
    [][\A c \in Callbacks, tokens \in TokenPayloads :
          ExchangeOk(c, tokens)
             => /\ DOMAIN googleTokensStore' =
                      (DOMAIN googleTokensStore) \cup {callbacks[c].dentistId}
                /\ \A d \in (DOMAIN googleTokensStore) \ {callbacks[c].dentistId} :
                      googleTokensStore'[d] = googleTokensStore[d]]_vars

\* Two callbacks for different dentists overlapped, both have stored their
\* tokens, and each dentist's record is the one its own callback wrote.
C12_Witness ==
    /\ Len(callbacks) = 2
    /\ callbacks[1].dentistId # callbacks[2].dentistId
    /\ \A c \in Callbacks :
          /\ callbacks[c].pc = "list"
          /\ googleTokensStore[callbacks[c].dentistId] = callbacks[c].tokens[1]
    /\ callbacks[1].tokens # callbacks[2].tokens

\* C17: a callback that answers 500 has not executed googleTokensStore.set,
\* so the store holds what it held before the callback; this includes the
\* callback whose calendar listing failed after the exchange.
C17_ErrorMeansNothingWritten ==
    answer.status = 500 => ~answer.stored

\* The request of this transition repeats the one answered before it.
Repeats(route, q) ==
    /\ handshake.route = route
    /\ handshake.mode = q.mode
    /\ handshake.token = q.token
    /\ handshake.challenge = q.challenge

\* What of the handshake holds whether or not a secret is configured: the
\* challenge is echoed exactly when the mode is subscribe and the token is
\* identical to META_VERIFY_TOKEN, a request repeated is answered as before,
\* and no session, handler or token record is touched.
HandshakeRepeatable ==
    [][\A route \in {1, 2}, q \in Queries :
          Verify(route, q)
             => /\ handshake'.status \in {200, 403}
                /\ handshake'.status = 200
                     <=> (q.mode = <<"subscribe">> /\ q.token = META_VERIFY_TOKEN)
                /\ handshake'.status = 200 => handshake'.body = q.challenge
                /\ Repeats(route, q)
                     => /\ handshake'.status = handshake.status
                        /\ handshake'.body = handshake.body
                /\ UNCHANGED <<sessions, handlers, googleTokensStore, callbacks>>]_vars

\* C15: the challenge is echoed only to a request that carries a token and
\* whose token is the secret that is configured; a request whose token is
\* not the configured secret is answered 403; a request repeated is answered
\* as before; and no session or token record is touched.
C15_EchoOnlyForSecret ==
    [][\A route \in {1, 2}, q \in Queries :
          Verify(route, q)
             => /\ handshake'.status = 200
                     => /\ META_VERIFY_TOKEN # << >>
                        /\ q.token = META_VERIFY_TOKEN
                        /\ handshake'.body = q.challenge
                /\ (META_VERIFY_TOKEN = << >> \/ q.token # META_VERIFY_TOKEN)
                     => handshake'.status = 403
                /\ Repeats(route, q)
                     => /\ handshake'.status = handshake.status
                        /\ handshake'.body = handshake.body
                /\ UNCHANGED <<sessions, handlers, googleTokensStore, callbacks>>]_vars

\* The condition of transition rule k as the specification words it.
RuleHolds(k, step, text) ==
    CASE k = 1 -> AnyCase(CancelWord, text)
      [] k = 2 -> AnyCase(ScheduleWord, text) \/ step = "idle"
      [] k = 3 -> step = "get_name"
      [] k = 4 -> step = "get_phone"
      [] k = 5 -> step = "offer_slots"
      [] k = 6 -> step = "confirm" /\ AnyCase(ConfirmWord, text)
      [] OTHER -> TRUE

\* C13: every message takes exactly one branch, the first of the rules 1..7
\* whose condition holds for the session's step and the trimmed text; the
\* branch sends a first message to the sender; and every response is a 200
\* given by the branch, never by the catch of the handler.  A message whose
\* body is truthy and not a string is answered by the catch (Reject).
C13_ExactlyOneRule ==
    [][/\ \A msg \in Messages :
            Receive(msg)
               => /\ Len(handlers') = Len(handlers) + 1
                  /\ Started.rule \in 1..7
                  /\ RuleHolds(Started.rule, StepOf(msg.from), MessageText(msg))
                  /\ \A k \in 1..(Started.rule - 1) :
                        ~RuleHolds(k, StepOf(msg.from), MessageText(msg))
                  /\ Len(Started.sent) = 1
                  /\ Started.sent[1].to = msg.from
       /\ last' # last => last'.status = 200 /\ ~last'.caught]_vars

\* The positions of the decimal digits of a text.
DigitPositions(text) ==
    { i \in 1..Len(text) :
        text[i] \in {"0", "1", "2", "3", "4", "5", "6", "7", "8", "9"} }

\* p is the text with every character that is not a decimal digit removed:
\* its k-th character is the k-th digit of the text.
IsDigitsOf(p, text) ==
    /\ Len(p) = Cardinality(DigitPositions(text))
    /\ \A i \in DigitPositions(text) :
          p[Cardinality({ j \in DigitPositions(text) : j <= i })] = text[i]

\* C14: at get_phone, a message that is neither the cancel nor the schedule
\* word stores as data.phone the digits of the trimmed text, in their order
\* and nothing else, sets the step to offer_slots and leaves the rest of data.
C14_PhoneIsDigitsOfText ==
    [][\A msg \in Messages :
          (/\ Receive(msg)
           /\ StepOf(msg.from) = "get_phone"
           /\ ~AnyCase(CancelWord, MessageText(msg))
           /\ ~AnyCase(ScheduleWord, MessageText(msg)))
             => /\ sessions'[msg.from].step = "offer_slots"
                /\ "phone" \in DOMAIN sessions'[msg.from].data
                /\ IsDigitsOf(sessions'[msg.from].data["phone"], MessageText(msg))
                /\ \A f \in (DOMAIN sessions[msg.from].data) \ {"phone"} :
                      /\ f \in DOMAIN sessions'[msg.from].data
                      /\ sessions'[msg.from].data[f] = sessions[msg.from].data[f]]_vars

\* The slot list was sent and the stored phone is "12", from the text "(1) 2".
C14_Witness ==
    \E h \in Handlers :
        /\ handlers[h].rule = 4
        /\ sessions[handlers[h].from].step = "offer_slots"
        /\ sessions[handlers[h].from].data["phone"] = <<"1", "2">>

\* The trimmed text is none of the three command words.
NoCommand(text) ==
    /\ ~AnyCase(CancelWord, text)
    /\ ~AnyCase(ScheduleWord, text)
    /\ ~AnyCase(ConfirmWord, text)

\* C16: a message takes the fallback branch exactly when the session's step
\* is confirm and the trimmed text is none of the cancel, schedule and
\* confirm words; the branch writes nothing to the session, sends the
\* fallback prompt to the sender and responds without another send or write.
C16_FallbackOnlyAtConfirm ==
    [][/\ \A msg \in Messages :
            Receive(msg)
               => /\ Started.rule = 7
                       <=> (StepOf(msg.from) = "confirm" /\ NoCommand(MessageText(msg)))
                  /\ Started.rule = 7
                       => /\ sessions' = sessions
                          /\ Started.sent = << Msg(msg.from, "fallback", << >>, << >>, "") >>
                          /\ Started.pc = "reply"
       /\ \A h \in Handlers, ok \in BOOLEAN :
            (ReplyFinish(h, ok) /\ handlers[h].rule = 7)
               => /\ sessions' = sessions
                  /\ Len(handlers') < Len(handlers)
                  /\ Len(handlers[h].sent) = 1]_vars

\* The fallback prompt is on its way and the session is still at confirm
\* with the slot it had.
C16_Witness ==
    \E h \in Handlers :
        /\ handlers[h].rule = 7
        /\ handlers[h].sent = << Msg(handlers[h].from, "fallback", << >>, << >>, "") >>
        /\ sessions[handlers[h].from].step = "confirm"
        /\ "slot" \in DOMAIN sessions[handlers[h].from].data

\* Sanity of the serial history: at most one request is in flight.
OneAtATime == Len(handlers) <= 1

\* C18: with the requests of a sender handled one at a time, the step of the
\* stored session changes only from idle to get_name, from get_name to
\* get_phone, from get_phone to offer_slots, from offer_slots to confirm on a
\* text whose Number() is an id of the catalog, from any step to get_name on
\* the schedule word, and from any step to idle when a cancel, or a
\* confirmation received at step confirm, is answered.
C18_StepEdges ==
    [][/\ \A msg \in Messages :
            ReceiveAlone(msg)
               => LET a == StepOf(msg.from)
                      b == sessions'[msg.from].step
                      t == MessageText(msg)
                  IN  a # b
                        => \/ a = "idle" /\ b = "get_name"
                           \/ a = "get_name" /\ b = "get_phone"
                           \/ a = "get_phone" /\ b = "offer_slots"
                           \/ /\ a = "offer_slots" /\ b = "confirm"
                              /\ \E i \in 1..Len(SLOTS) : NumberIs(Number(t), SLOTS[i].id)
                           \/ b = "get_name" /\ AnyCase(ScheduleWord, t)
       /\ (handlers # << >> /\ sessions' # sessions)
            => /\ sessions'[audit.from].step = "idle"
               /\ \/ AnyCase(CancelWord, audit.t1)
                  \/ audit.base.step = "confirm" /\ AnyCase(ConfirmWord, audit.t1)]_vars

\* The schedule word, received at step confirm, has set the step back to
\* get_name.
C18_Witness ==
    /\ audit.n = 1
    /\ audit.base.step = "confirm"
    /\ AnyCase(ScheduleWord, audit.t1)
    /\ sessions[audit.from].step = "get_name"

\* C19: with the requests of a sender handled one at a time, the slot a
\* valid choice at offer_slots stores is the label of the catalog entry
\* chosen, and the booking notice carries a name, a phone and a slot label
\* that were all written to data since the step was last set to get_name.
C19_NoticeIsOfThisFlow ==
    [][/\ \A msg \in Messages :
            (/\ ReceiveAlone(msg)
             /\ StepOf(msg.from) = "offer_slots"
             /\ sessions'[msg.from].step = "confirm")
               => \E i \in 1..Len(SLOTS) :
                     /\ NumberIs(Number(MessageText(msg)), SLOTS[i].id)
                     /\ sessions'[msg.from].data["slot"] = SLOTS[i].when
                     /\ audit'.flow["slot"] = SLOTS[i].when
       /\ \A h \in Handlers, ok \in BOOLEAN :
            (ConfirmContinue(h, ok) /\ DENTIST # << >>)
               => /\ Len(handlers'[h].sent) = 2
                  /\ handlers'[h].sent[2].kind = "booking"
                  /\ DOMAIN audit.flow = {"name", "phone", "slot"}
                  /\ handlers'[h].sent[2].name = audit.flow["name"]
                  /\ handlers'[h].sent[2].phone = audit.flow["phone"]
                  /\ handlers'[h].sent[2].slot = audit.flow["slot"]]_vars

\* A booking notice has been sent in a flow that the schedule word had
\* restarted while data held the slot of the earlier flow, and the notice
\* carries another slot.
C19_Witness ==
    \E h \in Handlers :
        /\ handlers[h].pc = "confirm_2"
        /\ Len(handlers[h].sent) = 2
        /\ audit.left # << >>
        /\ handlers[h].sent[2].slot # audit.left[1]

====
